---- MODULE Spec2Model ----
(***************************************************************************)
(* Model of src/src/math.rs: the wasm-bindgen wrappers RawVector,          *)
(* RawRotation and RawAngularInertia around the vector, rotation and       *)
(* angular inertia types of rapier / nalgebra.                             *)
(*                                                                         *)
(* An f32 is modelled by an integer: the wrappers only store, copy and     *)
(* return components, so distinct integers stand for distinct floats.      *)
(* Angles are counted in quarter turns (1 = pi/2), where cosine, sine and  *)
(* the two-argument arctangent are exact.                                  *)
(*                                                                         *)
(* The host holds two RawVector objects by handle; a call that returns     *)
(* Self allocates its result under the handle that is not its receiver's   *)
(* (the object that was there is dropped).                                 *)
(***************************************************************************)
EXTENDS Integers, Sequences, FiniteSets, TLC

\* Bounds of the model.
MaxVal == 2
MaxRotVal == 4
MaxInertiaVal == 1
MaxTurns == 4

VARIABLES
    features,   \* the cargo features the artifact was built with
    vec,        \* handle -> the Vector<f32> inside the RawVector, or Null
    written,    \* history: handle -> per axis, the value last given to it by
                \* the call that made the object or by a setter since
    rot,        \* the Rotation<f32> inside the RawRotation the host holds, or Null
    made,       \* history: the call that made rot, and its arguments
    inertia,    \* the AngularInertia<Real> inside the RawAngularInertia, or Null
    ret,        \* what the last call returned when it is not a wrapper object
    lastOp      \* history: the last call (see Call)

vars == <<features, vec, written, rot, made, inertia, ret, lastOp>>

Null == <<>>
NoValue == "void"
Handles == {1, 2}
Vals == 0..MaxVal
RotVals == 0..MaxRotVal
InertiaVals == 0..MaxInertiaVal
Angles == (0 - MaxTurns)..MaxTurns

\* The dimension of Vector<f32>: rapier2d (dim2) or rapier3d (dim3).
Dim == IF "dim3" \in features THEN 3 ELSE 2

(***************************************************************************)
(* The #[cfg(feature = ...)] gate of every item of the three impl blocks.  *)
(***************************************************************************)
CfgZyDim3Only ==
    [n \in {"RawVector::zy"} |-> {"dim3"}]

CfgZy ==
    [n \in {"RawVector::zy"} |-> {"dim2", "dim3"}]

Cfg ==
    [n \in {"RawAngularInertia::elements"} |-> {"dim3"}]
    @@ [n \in {"RawRotation::identity@dim2", "RawRotation::fromAngle",
               "RawRotation::im", "RawRotation::re", "RawRotation::angle"} |-> {"dim2"}]
    @@ [n \in {"RawRotation::new", "RawRotation::identity@dim3", "RawRotation::x",
               "RawRotation::y", "RawRotation::z", "RawRotation::w"} |-> {"dim3"}]
    @@ [n \in {"RawVector::zero", "RawVector::x", "RawVector::set_x",
               "RawVector::y", "RawVector::set_y"} |-> {}]
    @@ [n \in {"RawVector::new@dim2", "RawVector::xy", "RawVector::yx"} |-> {"dim2"}]
    @@ [n \in {"RawVector::new@dim3", "RawVector::z", "RawVector::set_z",
               "RawVector::xyz", "RawVector::yxz", "RawVector::zxy",
               "RawVector::xzy", "RawVector::yzx", "RawVector::zyx"} |-> {"dim3"}]
    @@ CfgZy

\* The items a build with features f compiles in (and wasm-bindgen exports).
ExportsOf(f) == {n \in DOMAIN Cfg : Cfg[n] \subseteq f}
Exports == ExportsOf(features)
Exported(n) == n \in Exports

(***************************************************************************)
(* The record of a call n on the receiver under h (0: none) whose result   *)
(* is placed under d (0: none). recv is the receiver's value when the      *)
(* call was made, kept for the calls that return an object or an array.    *)
(* via is the previous call's name when that call was a method that         *)
(* returned this call's receiver (a method chain a.f().g()), and root is   *)
(* that call's recv.                                                       *)
(* Read is the record of a call that only reads a float.                   *)
(***************************************************************************)
Call(n, h, d, r) ==
    [op |-> n, self |-> h, dst |-> d, recv |-> r,
     via |-> IF h # 0 /\ lastOp.self # 0 /\ lastOp.dst = h THEN lastOp.op ELSE "none",
     root |-> IF h # 0 /\ lastOp.self # 0 /\ lastOp.dst = h /\ r # Null
              THEN lastOp.recv ELSE Null]

Read(n, h) ==
    [op |-> n, self |-> h, dst |-> 0, recv |-> Null, via |-> "none", root |-> Null]

NoCall ==
    [op |-> "none", self |-> 0, dst |-> 0, recv |-> Null, via |-> "none", root |-> Null]

(***************************************************************************)
(* RawVector                                                               *)
(***************************************************************************)
\* Vector::zeros()
Zeros == [i \in 1..Dim |-> 0]

\* The component getters: self.0.x, self.0.y, self.0.z
Vector_xReadsY(v) == v[2]
Vector_x(v) == v[1]
Vector_y(v) == v[2]
Vector_z(v) == v[3]

\* The component stores: self.0.x = x, self.0.y = y, self.0.z = z
Store_x(v, a) == [v EXCEPT ![1] = a]
Store_y(v, a) == [v EXCEPT ![2] = a]
Store_z(v, a) == [v EXCEPT ![3] = a]

\* The swizzles of nalgebra that the wrappers forward to.
xy(v) == <<v[1], v[2]>>
yxKeepsOrder(v) == <<v[1], v[2]>>
yx(v) == <<v[2], v[1]>>
xyz(v) == <<v[1], v[2], v[3]>>
yxz(v) == <<v[2], v[1], v[3]>>
zxy(v) == <<v[3], v[1], v[2]>>
xzy(v) == <<v[1], v[3], v[2]>>
yzxAsZxy(v) == <<v[3], v[1], v[2]>>
yzx(v) == <<v[2], v[3], v[1]>>
zyx(v) == <<v[3], v[2], v[1]>>

Live(h) == vec[h] # Null

\* A call n that returns a new RawVector with components r, made from the
\* receiver under h (0 for an associated function) and placed under d.
ReturnVector(n, h, d, r) ==
    /\ vec' = [vec EXCEPT ![d] = r]
    /\ written' = [written EXCEPT ![d] = r]
    /\ ret' = NoValue
    /\ lastOp' = Call(n, h, d, IF h = 0 THEN Null ELSE vec[h])
    /\ UNCHANGED <<features, rot, made, inertia>>

\* A swizzle n of the receiver under h (&self), the result placed under d.
SwizzleInPlace(n, h, d, r) ==
    /\ Exported(n)
    /\ Live(h)
    /\ d # h
    /\ vec' = [vec EXCEPT ![d] = r, ![h] = r]
    /\ written' = [written EXCEPT ![d] = r]
    /\ ret' = NoValue
    /\ lastOp' = Call(n, h, d, vec[h])
    /\ UNCHANGED <<features, rot, made, inertia>>

Swizzle(n, h, d, r) ==
    /\ Exported(n)
    /\ Live(h)
    /\ d # h
    /\ ReturnVector(n, h, d, r)

\* A getter n of the receiver under h (&self) returning the float a.
Getter(n, h, a) ==
    /\ Exported(n)
    /\ Live(h)
    /\ ret' = a
    /\ lastOp' = Read(n, h)
    /\ UNCHANGED <<features, vec, written, rot, made, inertia>>

\* A setter n of axis i of the receiver under h (&mut self), given a and
\* leaving the components r.
SetterThroughCopy(n, h, i, a, r) ==
    /\ Exported(n)
    /\ Live(h)
    /\ vec' = [g \in Handles |-> IF g = h \/ vec[g] = vec[h] THEN r ELSE vec[g]]
    /\ written' = [written EXCEPT ![h][i] = a]
    /\ ret' = NoValue
    /\ lastOp' = Call(n, h, 0, Null)
    /\ UNCHANGED <<features, rot, made, inertia>>

Setter(n, h, i, a, r) ==
    /\ Exported(n)
    /\ Live(h)
    /\ vec' = [vec EXCEPT ![h] = r]
    /\ written' = [written EXCEPT ![h][i] = a]
    /\ ret' = NoValue
    /\ lastOp' = Call(n, h, 0, Null)
    /\ UNCHANGED <<features, rot, made, inertia>>

RawVector_zero(d) ==
    /\ Exported("RawVector::zero")
    /\ ReturnVector("RawVector::zero", 0, d, Zeros)

RawVector_new2(d, a, b) ==
    /\ Exported("RawVector::new@dim2")
    /\ ReturnVector("RawVector::new", 0, d, <<a, b>>)

RawVector_new3(d, a, b, c) ==
    /\ Exported("RawVector::new@dim3")
    /\ ReturnVector("RawVector::new", 0, d, <<a, b, c>>)

RawVector_x(h) == Getter("RawVector::x", h, Vector_x(vec[h]))
RawVector_y(h) == Getter("RawVector::y", h, Vector_y(vec[h]))
RawVector_z(h) == Getter("RawVector::z", h, Vector_z(vec[h]))

RawVector_set_x(h, a) == Setter("RawVector::set_x", h, 1, a, Store_x(vec[h], a))
RawVector_set_y(h, a) == Setter("RawVector::set_y", h, 2, a, Store_y(vec[h], a))
RawVector_set_z(h, a) == Setter("RawVector::set_z", h, 3, a, Store_z(vec[h], a))

RawVector_xy(h, d) == Swizzle("RawVector::xy", h, d, xy(vec[h]))
RawVector_yx(h, d) == Swizzle("RawVector::yx", h, d, yx(vec[h]))
RawVector_xyz(h, d) == Swizzle("RawVector::xyz", h, d, xyz(vec[h]))
RawVector_yxz(h, d) == Swizzle("RawVector::yxz", h, d, yxz(vec[h]))
RawVector_zxy(h, d) == Swizzle("RawVector::zxy", h, d, zxy(vec[h]))
RawVector_xzy(h, d) == Swizzle("RawVector::xzy", h, d, xzy(vec[h]))
RawVector_yzx(h, d) == Swizzle("RawVector::yzx", h, d, yzx(vec[h]))
RawVector_zyx(h, d) == Swizzle("RawVector::zyx", h, d, zyx(vec[h]))

Init ==
    /\ features \in {{"dim2"}, {"dim3"}}
    /\ vec = [h \in Handles |-> Null]
    /\ written = [h \in Handles |-> Null]
    /\ rot = Null
    /\ made = [op |-> "none", args |-> Null]
    /\ inertia = Null
    /\ ret = NoValue
    /\ lastOp = NoCall

VectorNext ==
    \/ \E d \in Handles : RawVector_zero(d)
    \/ \E d \in Handles, a, b \in Vals : RawVector_new2(d, a, b)
    \/ \E d \in Handles, a, b, c \in Vals : RawVector_new3(d, a, b, c)
    \/ \E h \in Handles : RawVector_x(h)
    \/ \E h \in Handles : RawVector_y(h)
    \/ \E h \in Handles : RawVector_z(h)
    \/ \E h \in Handles, a \in Vals : RawVector_set_x(h, a)
    \/ \E h \in Handles, a \in Vals : RawVector_set_y(h, a)
    \/ \E h \in Handles, a \in Vals : RawVector_set_z(h, a)
    \/ \E h, d \in Handles : RawVector_xy(h, d)
    \/ \E h, d \in Handles : RawVector_yx(h, d)
    \/ \E h, d \in Handles : RawVector_xyz(h, d)
    \/ \E h, d \in Handles : RawVector_yxz(h, d)
    \/ \E h, d \in Handles : RawVector_zxy(h, d)
    \/ \E h, d \in Handles : RawVector_xzy(h, d)
    \/ \E h, d \in Handles : RawVector_yzx(h, d)
    \/ \E h, d \in Handles : RawVector_zyx(h, d)

VectorSpec == Init /\ [][VectorNext]_vars

(***************************************************************************)
(* RawRotation                                                             *)
(***************************************************************************)
\* Quarter-turn values of cos and sin, and of atan2(b, a) on the axes.
Cos(t) == CASE t % 4 = 0 -> 1 [] t % 4 = 2 -> 0 - 1 [] OTHER -> 0
Sin(t) == CASE t % 4 = 1 -> 1 [] t % 4 = 3 -> 0 - 1 [] OTHER -> 0
Atan2(b, a) ==
    CASE b = 0 /\ a >= 0 -> 0
      [] b > 0 /\ a = 0 -> 1
      [] b = 0 /\ a < 0 -> 2
      [] b < 0 /\ a = 0 -> 0 - 1

\* nalgebra: Quaternion::new(w, i, j, k) stores the coordinates [i, j, k, w];
\* a complex number is the pair (re, im).
Quaternion_new(w, i, j, k) == <<i, j, k, w>>
Complex_new(re, im) == <<re, im>>

\* Rotation::identity(): the unit quaternion 1 (dim3), the complex number 1 (dim2).
Rotation_identityZero ==
    IF Dim = 3 THEN Quaternion_new(0, 0, 0, 0) ELSE Complex_new(0, 0)
Rotation_identity ==
    IF Dim = 3 THEN Quaternion_new(1, 0, 0, 0) ELSE Complex_new(1, 0)

\* Rotation::new(angle) in dim2: UnitComplex::new, (cos angle, sin angle).
UnitComplex_new(t) == Complex_new(Cos(t), Sin(t))

\* Unit::new_unchecked(Quaternion::new(w, x, y, z)): wrapped as given.
Rotation_newArgsInOrder(a, b, c, e) == Quaternion_new(a, b, c, e)
Rotation_new(a, b, c, e) == Quaternion_new(e, a, b, c)

\* The fields the getters read.
Rotation_re(q) == q[1]
Rotation_im(q) == q[2]
Rotation_angleSwapped(q) == Atan2(Rotation_re(q), Rotation_im(q))
Rotation_angle(q) == Atan2(Rotation_im(q), Rotation_re(q))
Rotation_i(q) == q[1]
Rotation_j(q) == q[2]
Rotation_k(q) == q[3]
Rotation_w(q) == q[4]

\* A call n with arguments args that returns a new RawRotation holding q.
ReturnRotation(n, args, q) ==
    /\ rot' = q
    /\ made' = [op |-> n, args |-> args]
    /\ ret' = NoValue
    /\ lastOp' = Call(n, 0, 0, Null)
    /\ UNCHANGED <<features, vec, written, inertia>>

\* A getter n of the RawRotation (&self) returning the float a.
RotationGetter(n, a) ==
    /\ Exported(n)
    /\ rot # Null
    /\ ret' = a
    /\ lastOp' = Read(n, 0)
    /\ UNCHANGED <<features, vec, written, rot, made, inertia>>

RawRotation_identity2 ==
    /\ Exported("RawRotation::identity@dim2")
    /\ ReturnRotation("RawRotation::identity", Null, Rotation_identity)

RawRotation_fromAngle(t) ==
    /\ Exported("RawRotation::fromAngle")
    /\ ReturnRotation("RawRotation::fromAngle", <<t>>, UnitComplex_new(t))

RawRotation_im == RotationGetter("RawRotation::im", Rotation_im(rot))
RawRotation_re == RotationGetter("RawRotation::re", Rotation_re(rot))
RawRotation_angle == RotationGetter("RawRotation::angle", Rotation_angle(rot))

RawRotation_new(a, b, c, e) ==
    /\ Exported("RawRotation::new")
    /\ ReturnRotation("RawRotation::new", <<a, b, c, e>>, Rotation_new(a, b, c, e))

RawRotation_identity3 ==
    /\ Exported("RawRotation::identity@dim3")
    /\ ReturnRotation("RawRotation::identity", Null, Rotation_identity)

RawRotation_x == RotationGetter("RawRotation::x", Rotation_i(rot))
RawRotation_y == RotationGetter("RawRotation::y", Rotation_j(rot))
RawRotation_z == RotationGetter("RawRotation::z", Rotation_k(rot))
RawRotation_w == RotationGetter("RawRotation::w", Rotation_w(rot))

RotationNext ==
    \/ RawRotation_identity2
    \/ \E t \in Angles : RawRotation_fromAngle(t)
    \/ RawRotation_im
    \/ RawRotation_re
    \/ RawRotation_angle
    \/ \E a, b, c, e \in RotVals : RawRotation_new(a, b, c, e)
    \/ RawRotation_identity3
    \/ RawRotation_x
    \/ RawRotation_y
    \/ RawRotation_z
    \/ RawRotation_w

RotationSpec == Init /\ [][RotationNext]_vars

(***************************************************************************)
(* RawAngularInertia                                                       *)
(***************************************************************************)
\* AngularInertia<Real>: in rapier3d the symmetric matrix SdpMatrix3 with the
\* fields m11, m12, m13, m22, m23, m33; in rapier2d a single Real.
AngularInertias ==
    IF Dim = 3 THEN [1..6 -> InertiaVals] ELSE [1..1 -> InertiaVals]

m11(m) == m[1]
m12(m) == m[2]
m13(m) == m[3]
m22(m) == m[4]
m23(m) == m[5]
m33(m) == m[6]

\* What elements() copies into the Float32Array of length 6.
ElementsFullRows(m) == <<m11(m), m12(m), m13(m), m12(m), m22(m), m23(m)>>
Elements(m) == <<m11(m), m12(m), m13(m), m22(m), m23(m), m33(m)>>

\* impl From<AngularInertia<Real>> for RawAngularInertia
RawAngularInertia_from(m) ==
    /\ inertia' = m
    /\ ret' = NoValue
    /\ lastOp' = Call("RawAngularInertia::from", 0, 0, Null)
    /\ UNCHANGED <<features, vec, written, rot, made>>

RawAngularInertia_elements ==
    /\ Exported("RawAngularInertia::elements")
    /\ inertia # Null
    /\ ret' = Elements(inertia)
    /\ lastOp' = Call("RawAngularInertia::elements", 0, 0, inertia)
    /\ UNCHANGED <<features, vec, written, rot, made, inertia>>

InertiaNext ==
    \/ \E m \in AngularInertias : RawAngularInertia_from(m)
    \/ RawAngularInertia_elements

InertiaSpec == Init /\ [][InertiaNext]_vars

\* The three wrappers are independent of one another: a behaviour of the
\* whole interleaves the calls on each.
Next == VectorNext \/ RotationNext \/ InertiaNext

Spec == Init /\ [][Next]_vars

(***************************************************************************)
(* Properties                                                              *)
(***************************************************************************)
SwizzleOps ==
    {"RawVector::xy", "RawVector::yx", "RawVector::xyz", "RawVector::yxz",
     "RawVector::zxy", "RawVector::xzy", "RawVector::yzx", "RawVector::zyx"}
SetterOps == {"RawVector::set_x", "RawVector::set_y", "RawVector::set_z"}
Axis(n) ==
    CASE n = "RawVector::set_x" -> 1
      [] n = "RawVector::set_y" -> 2
      [] n = "RawVector::set_z" -> 3
Other(h) == CHOOSE g \in Handles : g # h

\* C1: in a 3D build the rotation made by new(x, y, z, w) reads back x from
\* x(), y from y(), z from z() and w from w(), whatever the four values are:
\* in constructor order, as given, although the quaternion is stored (i, j, k, w)
\* and built from (w, x, y, z).
C1_NewReadsBackArguments ==
    made.op = "RawRotation::new" =>
        /\ <<Rotation_i(rot), Rotation_j(rot), Rotation_k(rot), Rotation_w(rot)>>
               = made.args
        /\ lastOp.op = "RawRotation::x" => ret = made.args[1]
        /\ lastOp.op = "RawRotation::y" => ret = made.args[2]
        /\ lastOp.op = "RawRotation::z" => ret = made.args[3]
        /\ lastOp.op = "RawRotation::w" => ret = made.args[4]

\* C1 witness: new(1, 2, 3, 4), not of unit norm, then w() returned 4.
C1_Witness ==
    /\ made.op = "RawRotation::new"
    /\ made.args = <<1, 2, 3, 4>>
    /\ lastOp.op = "RawRotation::w"
    /\ ret = 4

\* C2: each getter of a vector returns the value last written to its axis by
\* the setter of that axis, or the value the axis was made with (0 for zero())
\* when it was never set.
C2_GetterReturnsLastWritten ==
    /\ \A h \in Handles : Live(h) =>
           /\ Vector_x(vec[h]) = written[h][1]
           /\ Vector_y(vec[h]) = written[h][2]
           /\ Dim = 3 => Vector_z(vec[h]) = written[h][3]
    /\ lastOp.op = "RawVector::x" => ret = written[lastOp.self][1]
    /\ lastOp.op = "RawVector::y" => ret = written[lastOp.self][2]
    /\ lastOp.op = "RawVector::z" => ret = written[lastOp.self][3]

\* C2 witness: set_y has just written 2 to a 3D vector whose x and z still hold
\* other values; the getters read 1, 2, 0.
C2_Witness ==
    /\ lastOp.op = "RawVector::set_y"
    /\ Dim = 3
    /\ written[lastOp.self] = <<1, 2, 0>>
    /\ Vector_x(vec[lastOp.self]) = 1
    /\ Vector_y(vec[lastOp.self]) = 2
    /\ Vector_z(vec[lastOp.self]) = 0

\* C3: in a 3D build each of the six swizzles returns the receiver's components
\* in the order its name spells.
C3_SwizzleSpellsOrder ==
    LET v == lastOp.recv
        r == vec[lastOp.dst]
    IN  /\ lastOp.op = "RawVector::xyz" => r = <<v[1], v[2], v[3]>>
        /\ lastOp.op = "RawVector::yxz" => r = <<v[2], v[1], v[3]>>
        /\ lastOp.op = "RawVector::zxy" => r = <<v[3], v[1], v[2]>>
        /\ lastOp.op = "RawVector::xzy" => r = <<v[1], v[3], v[2]>>
        /\ lastOp.op = "RawVector::yzx" => r = <<v[2], v[3], v[1]>>
        /\ lastOp.op = "RawVector::zyx" => r = <<v[3], v[2], v[1]>>

\* C3 witness: yzx() of a vector with three different components (0, 1, 2)
\* returned (1, 2, 0).
C3_Witness ==
    /\ lastOp.op = "RawVector::yzx"
    /\ lastOp.recv = <<0, 1, 2>>
    /\ vec[lastOp.dst] = <<1, 2, 0>>

\* C4 as stated: v.xy().yx() equals (v.x, v.y), the original axis order.
C4_XyThenYxIsOriginal ==
    (lastOp.op = "RawVector::yx" /\ lastOp.via = "RawVector::xy") =>
        vec[lastOp.dst] = lastOp.root

\* C4 as amended: xy() keeps the order and yx() swaps it once, so
\* v.xy().yx() equals (v.y, v.x).
C4_XyThenYxIsSwapped ==
    (lastOp.op = "RawVector::yx" /\ lastOp.via = "RawVector::xy") =>
        vec[lastOp.dst] = <<lastOp.root[2], lastOp.root[1]>>

\* C4 witness: (1, 2).xy().yx() returned (2, 1).
C4_Witness ==
    /\ lastOp.op = "RawVector::yx"
    /\ lastOp.via = "RawVector::xy"
    /\ lastOp.root = <<1, 2>>
    /\ vec[lastOp.dst] = <<2, 1>>

\* C5: a swizzle leaves its receiver as it was before the call.
C5_SwizzleKeepsReceiver ==
    lastOp.op \in SwizzleOps => vec[lastOp.self] = lastOp.recv

\* C5 witness: zxy() of (0, 1, 2) returned (2, 0, 1) and the receiver is
\* still (0, 1, 2).
C5_Witness ==
    /\ lastOp.op = "RawVector::zxy"
    /\ lastOp.recv = <<0, 1, 2>>
    /\ vec[lastOp.dst] = <<2, 0, 1>>
    /\ vec[lastOp.self] = <<0, 1, 2>>

\* C6: elements() returns exactly 6 entries, the stored entries in the order
\* m11, m12, m13, m22, m23, m33 (index 1 is m12), and leaves the inertia value
\* as it was.
C6_ElementsSixInOrder ==
    lastOp.op = "RawAngularInertia::elements" =>
        LET m == lastOp.recv
        IN  /\ Len(ret) = 6
            /\ ret = <<m11(m), m12(m), m13(m), m22(m), m23(m), m33(m)>>
            /\ ret[2] = m12(inertia)
            /\ inertia = m

\* C6 witness: elements() of the tensor whose only nonzero entry is m22.
C6_Witness ==
    /\ lastOp.op = "RawAngularInertia::elements"
    /\ m22(inertia) = 1
    /\ ret = <<0, 0, 0, 1, 0, 0>>

\* C7: the rotation identity() returns has re = 1 and im = 0 in a 2D build,
\* and w = 1 and x = y = z = 0 in a 3D build.
C7_IdentityComponents ==
    made.op = "RawRotation::identity" =>
        /\ Dim = 2 =>
               /\ Rotation_re(rot) = 1
               /\ Rotation_im(rot) = 0
               /\ lastOp.op = "RawRotation::re" => ret = 1
               /\ lastOp.op = "RawRotation::im" => ret = 0
        /\ Dim = 3 =>
               /\ Rotation_w(rot) = 1
               /\ Rotation_i(rot) = 0
               /\ Rotation_j(rot) = 0
               /\ Rotation_k(rot) = 0
               /\ lastOp.op = "RawRotation::w" => ret = 1
               /\ lastOp.op \in {"RawRotation::x", "RawRotation::y", "RawRotation::z"}
                      => ret = 0

\* C7 witness: in a 3D build, identity() then w() returned 1.
C7_Witness ==
    /\ made.op = "RawRotation::identity"
    /\ Dim = 3
    /\ lastOp.op = "RawRotation::w"
    /\ ret = 1

C9_SetterChangesOnlyItsAxis ==
    [][lastOp'.op \in SetterOps =>
          LET h == lastOp'.self
          IN  /\ \A g \in Handles \ {h} : vec'[g] = vec[g]
              /\ \A i \in 1..Dim : i # Axis(lastOp'.op) => vec'[h][i] = vec[h][i]]_vars

\* C9 witness: (0, 1, 2).yxz() returned the copy (1, 0, 2); set_x(2) on the
\* copy left it (2, 0, 2) and the vector it was taken from (0, 1, 2).
C9_Witness ==
    /\ lastOp.op = "RawVector::set_x"
    /\ lastOp.via = "RawVector::yxz"
    /\ vec[lastOp.self] = <<2, 0, 2>>
    /\ vec[Other(lastOp.self)] = <<0, 1, 2>>

Dim3Items ==
    {"RawVector::z", "RawVector::set_z", "RawVector::new@dim3",
     "RawVector::xyz", "RawVector::yxz", "RawVector::zxy",
     "RawVector::xzy", "RawVector::yzx", "RawVector::zyx",
     "RawRotation::new", "RawRotation::x", "RawRotation::y", "RawRotation::z",
     "RawRotation::w", "RawAngularInertia::elements"}
Dim2Items ==
    {"RawVector::xy", "RawVector::yx", "RawVector::new@dim2",
     "RawRotation::fromAngle", "RawRotation::re", "RawRotation::im",
     "RawRotation::angle"}

\* C10: a build with exactly one of dim2 / dim3 has none of the other
\* dimension's operations, and zy(), gated on both at once, is in neither: it
\* exists only in a build with both features.
C10_BuildHasOneDimension ==
    /\ features = {"dim2"} => Exports \cap Dim3Items = {}
    /\ features = {"dim3"} => Exports \cap Dim2Items = {}
    /\ Cardinality(features) = 1 => ~Exported("RawVector::zy")
    /\ \A f \in SUBSET {"dim2", "dim3"} :
           "RawVector::zy" \in ExportsOf(f) <=> f = {"dim2", "dim3"}
    /\ features = {"dim2"} => lastOp.op \notin Dim3Items
    /\ features = {"dim3"} => lastOp.op \notin Dim2Items

\* C10 witness: a 2D build, in which yx() was called, that has xy and yx and
\* neither zyx nor zy.
C10_Witness ==
    /\ features = {"dim2"}
    /\ lastOp.op = "RawVector::yx"
    /\ Exported("RawVector::xy")
    /\ ~Exported("RawVector::zyx")
    /\ ~Exported("RawVector::zy")

====
